---- MODULE Spec2Model ----
(***************************************************************************)
(* distrffmpeg: the dispatcher (DistrFFmpeg.run with the Worker.add_job    *)
(* threads it starts) and the command-argument planner (ffmpeg_parser).    *)
(*                                                                         *)
(* Spec        the dispatcher: connect loop, polling loop, add_job threads *)
(* SpecParser  get_ffmpeg_commands: Parser(scope), template parse, user    *)
(*             parse                                                       *)
(* SpecCommand one FFmpegCommand: add_param calls, get_command, parse      *)
(* SpecPlanner fetch_jobs: the slices and their required segments          *)
(***************************************************************************)
EXTENDS Integers, Sequences, FiniteSets, TLC

(***************************************************************************)
(* Bounds of the model.                                                    *)
(***************************************************************************)
\* number of workers in config.workers
NWorkers == 2
\* number of jobs fetch_jobs produced
NJobs == 2
\* config.job_max_retries is drawn from 1..MaxRetries
MaxRetries == 2
\* threads started (t.start()) in one run
MaxStarts == 3
\* flags, separators and positionals after the binary in a user command line
MaxItems == 3
\* add_param calls made on one FFmpegCommand
MaxAdds == 3
\* frames of the input video (entries of scene_scores)
MaxFrames == 5
\* config.keyint_min and config.keyint_max are drawn from 1..MaxKeyint
MaxKeyint == 3
\* config.segment_frames is drawn from 1..MaxSegFrames
MaxSegFrames == 2

Workers == 1..NWorkers
Jobs == 1..NJobs

\* Python's None
None == "<None>"
\* None where a job is expected: an index no job has
NoJob == 0
\* no worker: an index no worker has
NoWorker == 0

VARIABLES
    \* ---- dispatcher (distrffmpeg.py) ----
    dpc,              \* position of the main thread inside run()
    wi,               \* index of the `for worker in self.config.workers` loops
    workers_cnt,      \* run(): workers_cnt
    worker,           \* config.workers: free, connected, jobs_completed, ...
    job,              \* self.jobs: taken, completed, retries
    job_max_retries,  \* config.job_max_retries
    created,          \* threads started by t.start() that have not yet run line 148
    running,          \* threads inside _add_job_supervised
    slices_txt,       \* the lines merge_final_slices wrote to slices.txt
    \* ---- history of the run (observers, written but never read by the program) ----
    starts,           \* per job: how many add_job threads were started on it
    started_completed,\* a thread was started on a job already completed
    nfail,            \* failed attempts so far: 0, 1, or 2 for two and more
    fail_first,       \* the first failure was the first attempt to finish on its worker
    first_done,       \* the job whose attempt succeeded first (NoJob: none yet)
    ps_failed,        \* the worker whose PowerShell probe failed first (NoWorker: none)
    \* ---- get_ffmpeg_commands (distrffmpeg.py) over ffmpeg_parser.Parser ----
    p_phase,          \* "new", "templated" (template parsed), "parsed" (user command parsed)
    p_ps,             \* the Parser: scope, cmds, _cmd_template, and the exception raised
    p_base,           \* which base_cmd was parsed as the template ("none": none)
    p_items,          \* the user command parsed, as items (history)
    \* ---- one FFmpegCommand built by add_param calls (ffmpeg_parser.py) ----
    c_phase,          \* "build" (add_param calls), "rt" (rendered and parsed again)
    c_cmd,            \* the FFmpegCommand
    c_n,              \* add_param calls made so far
    c_last_pos,       \* value of the positional added last (None: none added; history)
    c_rt,             \* the Parser that parsed get_command() of c_cmd
    c_last,           \* the last add_param call: command before, p, skip_scope, err (history)
    \* ---- fetch_jobs, the slice planner (distrffmpeg.py) ----
    pl_phase,         \* "plan" (inside the while loop), "done" (after break), "hang"
    pl_in,            \* scene_scores, segments and the config fields fetch_jobs reads
    pl_cur,           \* cur_frame_idx
    pl_jobs           \* self.jobs, as far as the planner fills them

dvars == <<dpc, wi, workers_cnt, worker, job, job_max_retries, created, running,
           slices_txt, starts, started_completed, nfail, fail_first, first_done,
           ps_failed>>

pvars == <<p_phase, p_ps, p_base, p_items>>

cvars == <<c_phase, c_cmd, c_n, c_last_pos, c_rt, c_last>>

plvars == <<pl_phase, pl_in, pl_cur, pl_jobs>>

vars == <<dvars, pvars, cvars, plvars>>

\* what the dispatcher, the parser, the command builder and the slice
\* planner leave alone
rest_d == <<pvars, cvars, plvars>>
rest_p == <<dvars, cvars, plvars>>
rest_c == <<dvars, pvars, plvars>>
rest_pl == <<dvars, pvars, cvars>>

(***************************************************************************)
(* Helpers                                                                 *)
(***************************************************************************)
RECURSIVE SumOver(_, _)
SumOver(f, S) ==
    IF S = {} THEN 0
    ELSE LET x == CHOOSE y \in S : TRUE IN f[x] + SumOver(f, S \ {x})

Platforms == {"Linux", "Windows", "Other"}

\* dataclass defaults of Worker (free, connected, jobs_completed); `reachable`
\* is the outcome of ssh.connect for this worker, `platform` its config field
WorkerInit(reach, plat) ==
    [free |-> TRUE, connected |-> FALSE, jobs_completed |-> 0,
     reachable |-> reach, platform |-> plat, exec_command |-> None]

\* the workers a config file can hold, as far as run() tells them apart: a
\* worker ssh cannot reach never gets as far as its platform
WorkerConfigs ==
    {WorkerInit(FALSE, "Linux")} \cup {WorkerInit(TRUE, p) : p \in Platforms}

\* dataclass defaults of Job
JobInit == [taken |-> FALSE, completed |-> FALSE, retries |-> -1]

\* Config.validate: job_max_retries > 0 and workers != []
ConfigValid(r) == r > 0 /\ NWorkers > 0

ThreadKeys == Workers \X Jobs

DInit ==
    /\ dpc = "connect"
    /\ wi = 1
    /\ workers_cnt = 0
    /\ worker \in [Workers -> WorkerConfigs]
    /\ job = [j \in Jobs |-> JobInit]
    /\ job_max_retries \in {r \in 1..MaxRetries : ConfigValid(r)}
    /\ created = [k \in ThreadKeys |-> 0]
    /\ running = [k \in ThreadKeys |-> 0]
    /\ slices_txt = <<>>
    /\ starts = [j \in Jobs |-> 0]
    /\ started_completed = FALSE
    /\ nfail = 0
    /\ fail_first = TRUE
    /\ first_done = NoJob
    /\ ps_failed = NoWorker

hvars == <<starts, started_completed, nfail, fail_first, first_done, ps_failed>>

(***************************************************************************)
(* Worker.connect, as run() calls it for the worker at index wi            *)
(***************************************************************************)
\* the worker record after connect()
connect(w) ==
    IF ~w.reachable
    THEN [w EXCEPT !.connected = FALSE]
    ELSE IF w.platform \notin {"Linux", "Windows"}
         \* the error object is returned, not raised: connected stays True and
         \* exec_command stays None
         THEN [w EXCEPT !.connected = TRUE]
         ELSE [w EXCEPT !.connected = TRUE,
                        !.exec_command = IF w.platform = "Linux"
                                         THEN "exec_command_linux"
                                         ELSE "exec_command_windows"]

ConnectWorker ==
    /\ dpc = "connect"
    /\ wi <= NWorkers
    /\ LET w2 == connect(worker[wi]) IN
        /\ worker' = [worker EXCEPT ![wi] = w2]
        /\ workers_cnt' = IF w2.connected THEN workers_cnt + 1 ELSE workers_cnt
    /\ wi' = wi + 1
    /\ UNCHANGED <<dpc, job, job_max_retries, created, running, slices_txt, hvars, rest_d>>

\* if workers_cnt == 0: raise DistrFFmpegError('No workers found online.')
CheckWorkers ==
    /\ dpc = "connect"
    /\ wi > NWorkers
    /\ dpc' = IF workers_cnt = 0 THEN "no_workers" ELSE "loop_top"
    /\ UNCHANGED <<wi, workers_cnt, worker, job, job_max_retries, created, running,
                   slices_txt, hvars, rest_d>>

(***************************************************************************)
(* The polling loop of run()                                               *)
(***************************************************************************)
completed_jobs_count == Cardinality({j \in Jobs : job[j].completed})

\* if completed_jobs_count == len(self.jobs): break
mutant_AllJobsCompleted == completed_jobs_count >= 1
AllJobsCompleted == completed_jobs_count = NJobs

LoopTop ==
    /\ dpc = "loop_top"
    /\ IF AllJobsCompleted
       THEN dpc' = "merge" /\ wi' = wi
       ELSE dpc' = "scan" /\ wi' = 1
    /\ UNCHANGED <<workers_cnt, worker, job, job_max_retries, created, running,
                   slices_txt, hvars, rest_d>>

\* the first job that is not taken, in creation order; NoJob when there is none
get_waiting_job ==
    IF \E j \in Jobs : ~job[j].taken
    THEN CHOOSE j \in Jobs : ~job[j].taken /\ \A k \in Jobs : k < j => job[k].taken
    ELSE NoJob

\* one iteration of `for worker in self.config.workers` (lines 347-359)
ScanSkip ==
    /\ dpc = "scan"
    /\ wi <= NWorkers
    /\ ~(worker[wi].free /\ worker[wi].connected)
    /\ wi' = wi + 1
    /\ UNCHANGED <<dpc, workers_cnt, worker, job, job_max_retries, created, running,
                   slices_txt, hvars, rest_d>>

ScanNoJob ==
    /\ dpc = "scan"
    /\ wi <= NWorkers
    /\ worker[wi].free /\ worker[wi].connected
    /\ get_waiting_job = NoJob
    /\ dpc' = "sleep"
    /\ UNCHANGED <<wi, workers_cnt, worker, job, job_max_retries, created, running,
                   slices_txt, hvars, rest_d>>

ScanRetriesExhausted ==
    /\ dpc = "scan"
    /\ wi <= NWorkers
    /\ worker[wi].free /\ worker[wi].connected
    /\ get_waiting_job # NoJob
    /\ job[get_waiting_job].retries >= job_max_retries
    /\ dpc' = "retries_exhausted"
    /\ UNCHANGED <<wi, workers_cnt, worker, job, job_max_retries, created, running,
                   slices_txt, hvars, rest_d>>

\* t = threading.Thread(target=worker.add_job, args=(j,)); t.start()
ScanStart ==
    /\ dpc = "scan"
    /\ wi <= NWorkers
    /\ worker[wi].free /\ worker[wi].connected
    /\ get_waiting_job # NoJob
    /\ LET j == get_waiting_job IN
        /\ job[j].retries < job_max_retries
        /\ SumOver(starts, Jobs) < MaxStarts
        /\ created' = [created EXCEPT ![<<wi, j>>] = @ + 1]
        /\ starts' = [starts EXCEPT ![j] = @ + 1]
        /\ started_completed' = (started_completed \/ job[j].completed)
    /\ wi' = wi + 1
    /\ UNCHANGED <<dpc, workers_cnt, worker, job, job_max_retries, running, slices_txt,
                   nfail, fail_first, first_done, ps_failed, rest_d>>

ScanEnd ==
    /\ dpc = "scan"
    /\ wi > NWorkers
    /\ dpc' = "sleep"
    /\ UNCHANGED <<wi, workers_cnt, worker, job, job_max_retries, created, running,
                   slices_txt, hvars, rest_d>>

\* time.sleep(5)
Sleep ==
    /\ dpc = "sleep"
    /\ dpc' = "loop_top"
    /\ UNCHANGED <<wi, workers_cnt, worker, job, job_max_retries, created, running,
                   slices_txt, hvars, rest_d>>

(***************************************************************************)
(* merge_final_slices: `for job in self.jobs` writes one line per job, the *)
(* base name of job.output_fpath, which fetch_jobs made from the job's     *)
(* index in creation order                                                 *)
(***************************************************************************)
output_fpath(j) == j

SlicesList == [k \in 1..NJobs |-> output_fpath(k)]

Merge ==
    /\ dpc = "merge"
    /\ slices_txt' = SlicesList
    /\ dpc' = "merged"
    /\ UNCHANGED <<wi, workers_cnt, worker, job, job_max_retries, created, running, hvars, rest_d>>

(***************************************************************************)
(* Worker.add_job, run by a daemon thread.  The threads live as long as    *)
(* the main thread: an exception in run() or its return ends the process.  *)
(***************************************************************************)
ProcessAlive == dpc \notin {"no_workers", "retries_exhausted", "merged"}

\* lines 148-151: self.free = False; job.taken = True; job.retries += 1
mutant_AddJobBegin(w, j) ==
    /\ ProcessAlive
    /\ created[<<w, j>>] > 0
    /\ created' = [created EXCEPT ![<<w, j>>] = @ - 1]
    /\ running' = [running EXCEPT ![<<w, j>>] = @ + 1]
    /\ worker' = [worker EXCEPT ![w].free = FALSE]
    /\ job' = [job EXCEPT ![j].taken = TRUE]
    /\ UNCHANGED <<dpc, wi, workers_cnt, job_max_retries, slices_txt, hvars, rest_d>>

AddJobBegin(w, j) ==
    /\ ProcessAlive
    /\ created[<<w, j>>] > 0
    /\ created' = [created EXCEPT ![<<w, j>>] = @ - 1]
    /\ running' = [running EXCEPT ![<<w, j>>] = @ + 1]
    /\ worker' = [worker EXCEPT ![w].free = FALSE]
    /\ job' = [job EXCEPT ![j].taken = TRUE, ![j].retries = @ + 1]
    /\ UNCHANGED <<dpc, wi, workers_cnt, job_max_retries, slices_txt, hvars, rest_d>>

\* lines 155-161: _add_job_supervised raised
mutant_AddJobFail_keep_taken(w, j) ==
    /\ ProcessAlive
    /\ running[<<w, j>>] > 0
    /\ running' = [running EXCEPT ![<<w, j>>] = @ - 1]
    /\ worker' = [worker EXCEPT ![w].free = TRUE]
    /\ nfail' = IF nfail = 0 THEN 1 ELSE 2
    /\ fail_first' = IF nfail = 0 THEN worker[w].jobs_completed = 0 ELSE fail_first
    /\ UNCHANGED <<dpc, wi, workers_cnt, job, job_max_retries, created, slices_txt,
                   starts, started_completed, first_done, ps_failed, rest_d>>

AddJobFail(w, j) ==
    /\ ProcessAlive
    /\ running[<<w, j>>] > 0
    /\ running' = [running EXCEPT ![<<w, j>>] = @ - 1]
    /\ worker' = [worker EXCEPT ![w].free = TRUE]
    /\ job' = [job EXCEPT ![j].taken = FALSE]
    /\ nfail' = IF nfail = 0 THEN 1 ELSE 2
    /\ fail_first' = IF nfail = 0 THEN worker[w].jobs_completed = 0 ELSE fail_first
    /\ UNCHANGED <<dpc, wi, workers_cnt, job_max_retries, created, slices_txt,
                   starts, started_completed, first_done, ps_failed, rest_d>>

\* exec_command_windows lines 133-135: the PowerShell probe of the first
\* exec_command call exits non-zero and DistrFFmpegError is raised; add_job
\* catches it like any other exception (lines 155-161)
AddJobProbeFail(w, j) ==
    /\ ProcessAlive
    /\ running[<<w, j>>] > 0
    /\ worker[w].exec_command = "exec_command_windows"
    /\ running' = [running EXCEPT ![<<w, j>>] = @ - 1]
    /\ worker' = [worker EXCEPT ![w].free = TRUE]
    /\ job' = [job EXCEPT ![j].taken = FALSE]
    /\ nfail' = IF nfail = 0 THEN 1 ELSE 2
    /\ fail_first' = IF nfail = 0 THEN worker[w].jobs_completed = 0 ELSE fail_first
    /\ ps_failed' = IF ps_failed = NoWorker THEN w ELSE ps_failed
    /\ UNCHANGED <<dpc, wi, workers_cnt, job_max_retries, created, slices_txt,
                   starts, started_completed, first_done, rest_d>>

\* lines 163-166: _add_job_supervised returned; it cannot when exec_command
\* is None (calling None raises TypeError)
AddJobSucceed(w, j) ==
    /\ ProcessAlive
    /\ running[<<w, j>>] > 0
    /\ worker[w].exec_command # None
    /\ running' = [running EXCEPT ![<<w, j>>] = @ - 1]
    /\ job' = [job EXCEPT ![j].completed = TRUE]
    /\ worker' = [worker EXCEPT ![w].free = TRUE, ![w].jobs_completed = @ + 1]
    /\ first_done' = IF first_done = NoJob THEN j ELSE first_done
    /\ UNCHANGED <<dpc, wi, workers_cnt, job_max_retries, created, slices_txt,
                   starts, started_completed, nfail, fail_first, ps_failed, rest_d>>

DNext ==
    \/ ConnectWorker
    \/ CheckWorkers
    \/ LoopTop
    \/ ScanSkip
    \/ ScanNoJob
    \/ ScanRetriesExhausted
    \/ ScanStart
    \/ ScanEnd
    \/ Sleep
    \/ Merge
    \/ \E w \in Workers, j \in Jobs : AddJobBegin(w, j)
    \/ \E w \in Workers, j \in Jobs : AddJobFail(w, j)
    \/ \E w \in Workers, j \in Jobs : AddJobProbeFail(w, j)
    \/ \E w \in Workers, j \in Jobs : AddJobSucceed(w, j)


(***************************************************************************)
(* ffmpeg_parser.py: the argument catalog                                  *)
(***************************************************************************)
ArgScope == {"PRE", "REMOTE", "FINAL", "DISCARD", "UNKNOWN"}

ARG_SCOPES ==
    [sc \in {"PRE", "REMOTE", "FINAL", "DISCARD"} |->
        CASE sc = "PRE" -> {"threads", "ss", "t", "frames:v", "vframes", "i"}
          [] sc = "REMOTE" -> {"c:v", "vcodec", "crf", "qp", "b:v", "vn", "pass",
                               "filter:v", "vf", "f"}
          [] sc = "FINAL" -> {"c:a", "acodec", "b:a", "an", "movflags", "i", None}
          [] sc = "DISCARD" -> {"y", "n", "v", "loglevel", "report", "g"}]

ARG_POLICIES ==
    [pol \in {"CONCAT", "MULTIPLE", "FORBID"} |->
        CASE pol = "CONCAT" -> {"filter:v", "vf"}
          [] pol = "MULTIPLE" -> {None, "i", "f", "map"}
          [] pol = "FORBID" -> {"g"}]

ARG_QUOTES == {"filter:v", "vf", "i"}

ARG_SINGLES == {"y", "n", "v", "report", "vn", "an"}

Param(spec, value) == [spec |-> spec, value |-> value]

is_param_in_scope(p, scope) ==
    IF scope = "UNKNOWN"
    THEN \A sc \in DOMAIN ARG_SCOPES : p.spec \notin ARG_SCOPES[sc]
    ELSE p.spec \in ARG_SCOPES[scope]

(***************************************************************************)
(* FFmpegCommand.  Params are objects: `objs` holds every Param object the *)
(* command has seen (its index is the object's identity), `params` the     *)
(* list of references, `output` a reference or NoRef for None.  Equality   *)
(* of Params (`in`, `remove`, `!=`) is the dataclass's: by spec and value. *)
(* deepcopy of a command is the same record.                               *)
(***************************************************************************)
NoRef == 0

FFmpegCommand(ffmpeg_bin, scope) ==
    [objs |-> <<Param(None, ffmpeg_bin)>>, params |-> <<1>>, output |-> NoRef,
     scope |-> scope]

\* self.params[k], counting from 1
PV(c, k) == c.objs[c.params[k]]

\* the Params of the command, in order
ParamList(c) == [k \in 1..Len(c.params) |-> PV(c, k)]

Min(S) == CHOOSE x \in S : \A y \in S : x <= y

validate_param_scope(c, p) ==
    is_param_in_scope(p, c.scope) \/ is_param_in_scope(p, "UNKNOWN")

\* validate(): at least 3 params, the last one positional, every param in
\* the command's scope or unclassified, exactly two positionals
validate(c) ==
    /\ Len(c.params) >= 3
    /\ PV(c, Len(c.params)).spec = None
    /\ \A k \in 1..Len(c.params) : validate_param_scope(c, PV(c, k))
    /\ Cardinality({k \in 1..Len(c.params) : PV(c, k).spec = None}) = 2

\* list.remove(v): drops the first element equal to v
RemoveAt(seq, k) == [n \in 1..(Len(seq) - 1) |-> IF n < k THEN seq[n] ELSE seq[n + 1]]

remove(c, v) ==
    LET eq == {k \in 1..Len(c.params) : PV(c, k) = v}
    IN  [c EXCEPT !.params = RemoveAt(@, Min(eq))]

Contains(c, v) == \E k \in 1..Len(c.params) : PV(c, k) = v

\* lines 168-178: the merge policy for a spec already present at index i;
\* pid is the reference of the Param being added
mutant_apply_policy_keep_first(c, i, p, pid) ==
    IF p.spec \in ARG_POLICIES["CONCAT"]
    THEN [cmd |-> [c EXCEPT !.objs[c.params[i]].value = @ \o "," \o p.value],
          err |-> "none"]
    ELSE IF p.spec \in ARG_POLICIES["MULTIPLE"]
    THEN [cmd |-> c, err |-> "none"]
    ELSE IF p.spec \in ARG_POLICIES["FORBID"]
    THEN [cmd |-> c, err |-> "ForbiddenArg"]
    ELSE [cmd |-> [c EXCEPT !.objs[c.params[i]].value = p.value], err |-> "none"]

mutant_apply_policy_replace(c, i, p, pid) ==
    IF p.spec \in ARG_POLICIES["FORBID"]
    THEN [cmd |-> c, err |-> "ForbiddenArg"]
    ELSE [cmd |-> [c EXCEPT !.objs[c.params[i]].value = p.value], err |-> "none"]

apply_policy(c, i, p, pid) ==
    IF p.spec \in ARG_POLICIES["CONCAT"]
    THEN [cmd |-> [c EXCEPT !.objs[c.params[i]].value = @ \o "," \o p.value],
          err |-> "none"]
    ELSE IF p.spec \in ARG_POLICIES["MULTIPLE"]
    THEN [cmd |-> [c EXCEPT !.params = Append(@, pid)], err |-> "none"]
    ELSE IF p.spec \in ARG_POLICIES["FORBID"]
    THEN [cmd |-> c, err |-> "ForbiddenArg"]
    ELSE [cmd |-> [c EXCEPT !.objs[c.params[i]].value = p.value], err |-> "none"]

\* lines 180-184: there can only be one output
output_slot(c, p, pid) ==
    IF p.spec = None
    THEN LET c1 == IF c.output # NoRef /\ Contains(c, c.objs[c.output])
                   THEN remove(c, c.objs[c.output])
                   ELSE c
         IN  [c1 EXCEPT !.output = pid]
    ELSE c

\* lines 189-192: keep output at the end
keep_output_last(c) ==
    IF c.output # NoRef /\ PV(c, Len(c.params)) # c.objs[c.output]
    THEN IF Contains(c, c.objs[c.output])
         THEN [cmd |-> [remove(c, c.objs[c.output]) EXCEPT !.params = Append(@, c.output)],
               err |-> "none"]
         ELSE [cmd |-> c, err |-> "ValueError"]
    ELSE [cmd |-> c, err |-> "none"]

\* add_param(p, skip_scope): the command afterwards and the exception raised
mutant_add_param_no_placeholder(c, p, skip_scope) ==
    IF ~validate_param_scope(c, p) /\ ~skip_scope
    THEN [cmd |-> c, err |-> "InvalidScope"]
    ELSE
      LET pid == Len(c.objs) + 1
          c0 == [c EXCEPT !.objs = Append(@, p)]
          same == {k \in 1..Len(c.params) : PV(c, k).spec = p.spec}
      IN  IF same = {}
          THEN keep_output_last([c0 EXCEPT !.params = Append(@, pid)])
          ELSE LET r == apply_policy(c0, Min(same), p, pid)
               IN  IF r.err # "none"
                   THEN [cmd |-> c, err |-> r.err]
                   ELSE keep_output_last(output_slot(r.cmd, p, pid))

add_param(c, p, skip_scope) ==
    IF ~validate_param_scope(c, p) /\ ~skip_scope
    THEN [cmd |-> c, err |-> "InvalidScope"]
    ELSE
      LET pid == Len(c.objs) + 1
          c0 == [c EXCEPT !.objs = Append(@, p)]
          same == {k \in 1..Len(c.params) : PV(c, k).spec = p.spec}
          placeholders == {k \in 1..Len(c.params) :
                              PV(c, k).value = "PLACEHOLDER" /\ PV(c, k).spec = p.spec}
      IN  IF same = {}
          THEN keep_output_last([c0 EXCEPT !.params = Append(@, pid)])
          ELSE IF placeholders # {}
          THEN keep_output_last(
                  [c0 EXCEPT !.objs[c.params[Min(placeholders)]].value = p.value])
          ELSE LET r == apply_policy(c0, Min(same), p, pid)
               IN  IF r.err # "none"
                   THEN [cmd |-> c, err |-> r.err]
                   ELSE keep_output_last(output_slot(r.cmd, p, pid))

\* get_command: one piece per Param, the string is their concatenation
Piece(p) ==
    IF p.spec = None THEN "\"" \o p.value \o "\" "
    ELSE IF p.value = None THEN "-" \o p.spec \o " "
    ELSE IF p.spec \in ARG_QUOTES THEN "-" \o p.spec \o " \"" \o p.value \o "\" "
    ELSE "-" \o p.spec \o " " \o p.value \o " "

get_command_pieces(c, without_bin) ==
    LET first == IF without_bin THEN 2 ELSE 1
    IN  [k \in 1..(Len(c.params) - first + 1) |-> Piece(PV(c, k + first - 1))]

RECURSIVE ConcatAll(_)
ConcatAll(seq) == IF seq = <<>> THEN "" ELSE Head(seq) \o ConcatAll(Tail(seq))

get_command(c, without_bin) == ConcatAll(get_command_pieces(c, without_bin))

(***************************************************************************)
(* Parser.  A token of shlex.split's result is [flag, s]: flag is          *)
(* `token.startswith("-") and not token == "-"` and then s is token[1:];   *)
(* otherwise s is the token.                                               *)
(***************************************************************************)
Flag(s) == [flag |-> TRUE, s |-> s]
Word(s) == [flag |-> FALSE, s |-> s]

\* the token as written
TokText(t) == IF t.flag THEN "-" \o t.s ELSE t.s

\* Parser.__init__
NewParser(scope) ==
    [scope |-> scope,
     cmds |-> <<FFmpegCommand("ffmpeg", scope)>>,
     tmpl |-> FFmpegCommand("ffmpeg", scope),
     err |-> "none"]

\* lines 270-282: what a non-template parse does with p
mutant_route_as_template(p, scope) == "add_skip_scope"

route(p, scope) ==
    IF is_param_in_scope(p, scope) THEN "add"
    ELSE IF is_param_in_scope(p, "DISCARD") THEN "pass"
    ELSE IF is_param_in_scope(p, "UNKNOWN") /\ scope = "REMOTE" THEN "add"
    ELSE "pass"

place(ps, p, template) ==
    LET n == Len(ps.cmds)
        how == IF template THEN "add_skip_scope" ELSE route(p, ps.scope)
    IN  IF how = "pass" THEN ps
        ELSE LET r == add_param(ps.cmds[n], p, how = "add_skip_scope")
             IN  [ps EXCEPT !.cmds[n] = r.cmd, !.err = r.err]

\* the token loop of parse_command (lines 236-284), from token i on; an
\* exception ends it
RECURSIVE parse_loop(_, _, _, _)
parse_loop(ps, toks, i, template) ==
    IF i > Len(toks) \/ ps.err # "none" THEN ps
    ELSE
      LET token == toks[i] IN
      IF token.flag
      THEN IF token.s \notin ARG_SINGLES
           THEN IF i + 1 > Len(toks)
                THEN [ps EXCEPT !.err = "IndexError"]
                ELSE parse_loop(place(ps, Param(token.s, TokText(toks[i + 1])), template),
                                toks, i + 2, template)
           ELSE parse_loop(place(ps, Param(token.s, None), template), toks, i + 1, template)
      ELSE IF token.s = "ffmpeg"
      THEN parse_loop([ps EXCEPT !.cmds = Append(@, ps.tmpl)], toks, i + 1, template)
      ELSE parse_loop(place(ps, Param(None, token.s), template), toks, i + 1, template)

\* parse_command(command_line, template); token 1 is the binary and is skipped
mutant_parse_command_keep_template(ps, toks, template) == parse_loop(ps, toks, 2, template)

parse_command(ps, toks, template) ==
    LET r == parse_loop(ps, toks, 2, template)
    IN  IF r.err = "none" /\ template
        THEN [r EXCEPT !.tmpl = r.cmds[Len(r.cmds)]]
        ELSE r

(***************************************************************************)
(* get_ffmpeg_commands(base_cmd, scope): Parser(scope), then base_cmd      *)
(* parsed as the template, then self.user_cmd.  The base commands are the  *)
(* four the program passes, as shlex.split tokenizes them (paths and frame *)
(* numbers of one run filled in).  A user command parsed by a Parser that  *)
(* was given no template is the Parser class used on its own.              *)
(***************************************************************************)
Fv(s, v) == <<Flag(s), Word(v)>>
Fs(s) == <<Flag(s)>>
Pos(v) == <<Word(v)>>
Sep == <<Word("ffmpeg")>>

RECURSIVE Flatten(_)
Flatten(items) == IF items = <<>> THEN <<>> ELSE Head(items) \o Flatten(Tail(items))

\* line 396
base_merge ==
    [name |-> "merge_final_slices", scope |-> "FINAL",
     tokens |-> <<Word("ffmpeg")>> \o Fs("y") \o Fv("f", "concat") \o Fv("safe", "0")
                \o Fv("i", "slices_final/slices.txt") \o Fv("i", "PLACEHOLDER")
                \o Fv("c:v", "copy") \o Fv("map", "0:v:0") \o Fv("map", "1:a:0")]

\* line 420
base_scenescores ==
    [name |-> "fetch_scenescores", scope |-> "PRE",
     tokens |-> <<Word("ffmpeg")>> \o Fs("y") \o Fv("i", "PLACEHOLDER")
                \o Fv("vf", "select='gte(scene,0)',metadata=print:file='scenescores.txt'")
                \o Fv("f", "null") \o Pos("-")]

\* line 460
base_segments ==
    [name |-> "fetch_segments", scope |-> "PRE",
     tokens |-> <<Word("ffmpeg")>> \o Fs("y") \o Fv("i", "PLACEHOLDER")
                \o Fv("c", "copy") \o Fv("f", "segment") \o Fv("segment_frames", "25,50")
                \o Fv("segment_list", "segments/segments.csv")
                \o Fv("reset_timestamps", "1") \o Fv("break_non_keyframes", "1")
                \o Pos("segments/out%06d.mkv")]

\* line 534
base_job ==
    [name |-> "fetch_jobs", scope |-> "REMOTE",
     tokens |-> <<Word("ffmpeg")>> \o Fs("y") \o Fv("f", "concat") \o Fv("safe", "0")
                \o Fv("i", "segments.txt")
                \o Fv("vf", "select=between(n\\,0\\,41),setpts=N/FRAME_RATE/TB")
                \o Fv("fps_mode", "passthrough") \o Fv("frame_pts", "true")
                \o Fs("an") \o Fv("g", "10000") \o Pos("out.mkv")]

BaseCmds == {base_merge, base_scenescores, base_segments, base_job}

\* the Parser used on its own with a two-pass encode: a template with an
\* input placeholder, codec flags and an output, then a user line of two
\* passes separated by the "ffmpeg" word
base_two_pass ==
    [name |-> "two_pass", scope |-> "REMOTE",
     tokens |-> <<Word("ffmpeg")>> \o Fv("i", "PLACEHOLDER") \o Fv("c:v", "libaom-av1")
                \o Fv("crf", "40") \o Pos("out.mkv")]

Templates == BaseCmds \cup {base_two_pass}

first_pass == <<Fv("i", "in.mp4"), Fv("pass", "1"), Fv("f", "null"), Pos("-")>>
second_pass == <<Fv("i", "in.mp4"), Fv("pass", "2")>>

\* the subsequences of a sequence of items
SubSeqs(seq) ==
    {SelectSeq([n \in 1..Len(seq) |-> IF n \in keep THEN seq[n] ELSE <<>>],
               LAMBDA it : it # <<>>) : keep \in SUBSET (1..Len(seq))}

\* two-pass user lines: any part of the first pass, "ffmpeg", any part of
\* the second
TwoPassLines == {a \o <<Sep>> \o b : a \in SubSeqs(first_pass), b \in SubSeqs(second_pass)}

\* what a user command line is made of
UserItems ==
    { Fv("vf", "scale=1920:1080"), Fv("vf", "vidstabdetect"), Fv("filter:v", "hflip"),
      Fv("i", "in.mp4"), Fv("i", "in2.mp4"),
      Fv("f", "null"), Fv("f", "mp4"),
      Fv("map", "0:v:0"), Fv("map", "1:a:0"),
      Fv("g", "250"), Fv("crf", "40"), Fs("y"), Sep, Pos("out.mp4") }

UserLines == UNION {[1..n -> UserItems] : n \in 0..MaxItems}

\* prepare_user_cmd: self.user_cmd = "ffmpeg " + the arguments
user_cmd(items) == <<Word("ffmpeg")>> \o Flatten(items)

\* no Parser exists
PIdle ==
    /\ p_phase = "off"
    /\ p_ps = "off"
    /\ p_base = "none"
    /\ p_items = <<>>

PInit ==
    /\ p_phase = "new"
    /\ p_ps \in {NewParser(sc) : sc \in {"PRE", "REMOTE", "FINAL"}}
    /\ p_base = "none"
    /\ p_items = <<>>

\* parser.parse_command(base_cmd, template=True)
ParseTemplate ==
    /\ p_phase = "new"
    /\ \E b \in Templates :
        /\ b.scope = p_ps.scope
        /\ p_ps' = parse_command(p_ps, b.tokens, TRUE)
        /\ p_base' = b.name
    /\ p_phase' = "templated"
    /\ UNCHANGED <<p_items, rest_p>>

\* parser.parse_command(self.user_cmd)
ParseUser ==
    /\ p_phase \in {"new", "templated"}
    /\ p_ps.err = "none"
    /\ \E items \in UserLines :
        /\ p_ps' = parse_command(p_ps, user_cmd(items), FALSE)
        /\ p_items' = items
    /\ p_phase' = "parsed"
    /\ UNCHANGED <<p_base, rest_p>>

\* parser.parse_command(user line of two passes)
ParseTwoPass ==
    /\ p_phase = "templated"
    /\ p_ps.err = "none"
    /\ \E items \in TwoPassLines :
        /\ p_ps' = parse_command(p_ps, user_cmd(items), FALSE)
        /\ p_items' = items
    /\ p_phase' = "parsed"
    /\ UNCHANGED <<p_base, rest_p>>

\* the dispatcher before run(): nothing of it moves while commands are planned
DIdle ==
    /\ dpc = "off"
    /\ wi = 1
    /\ workers_cnt = 0
    /\ worker = [w \in Workers |-> WorkerInit(TRUE, "Linux")]
    /\ job = [j \in Jobs |-> JobInit]
    /\ job_max_retries = 1
    /\ created = [k \in ThreadKeys |-> 0]
    /\ running = [k \in ThreadKeys |-> 0]
    /\ slices_txt = <<>>
    /\ starts = [j \in Jobs |-> 0]
    /\ started_completed = FALSE
    /\ nfail = 0
    /\ fail_first = TRUE
    /\ first_done = NoJob
    /\ ps_failed = NoWorker

(***************************************************************************)
(* An FFmpegCommand built by add_param calls, then rendered by get_command *)
(* and parsed again by a fresh Parser of the same scope.                   *)
(***************************************************************************)
\* the Params handed to add_param: positionals, flags of each scope table,
\* an unclassified flag
CmdParams ==
    { Param(None, "ffmpeg"), Param(None, "out.mp4"), Param(None, "a.mkv"),
      Param("i", "in.mp4"), Param("c:a", "copy"), Param("c:a", "aac"),
      Param("an", None), Param("map", "0:v:0"), Param("crf", "40"),
      Param("g", "250"), Param("i", "PLACEHOLDER"), Param("g", "PLACEHOLDER") }

\* the flag names a token can carry
FlagNames == (UNION {ARG_SCOPES[sc] : sc \in DOMAIN ARG_SCOPES} \ {None}) \cup {"map"}

\* one token of shlex.split(line, posix=True) for a piece of text without
\* spaces or quotes: parse_command reads it as a flag when it starts with
\* "-" and is not "-" alone
shlex_token(text) ==
    IF \E f \in FlagNames : text = "-" \o f
    THEN Flag(CHOOSE f \in FlagNames : text = "-" \o f)
    ELSE Word(text)

\* shlex.split(c.get_command()): get_command writes "value", -spec,
\* -spec "value" or -spec value for a Param, shlex takes the quotes away
mutant_shlex_split_get_command(c) ==
    Flatten([k \in 1..Len(c.params) |->
        LET q == PV(c, k) IN
        IF q.spec = None THEN <<shlex_token(q.value)>>
        ELSE IF q.value = None THEN <<shlex_token("-" \o q.spec)>>
        ELSE IF q.spec \in ARG_QUOTES
        THEN <<shlex_token("-" \o q.spec), shlex_token("\"" \o q.value \o "\"")>>
        ELSE <<shlex_token("-" \o q.spec), shlex_token(q.value)>>])

shlex_split_get_command(c) ==
    Flatten([k \in 1..Len(c.params) |->
        LET q == PV(c, k) IN
        IF q.spec = None THEN <<shlex_token(q.value)>>
        ELSE IF q.value = None THEN <<shlex_token("-" \o q.spec)>>
        ELSE <<shlex_token("-" \o q.spec), shlex_token(q.value)>>])

\* no command is being built
CIdle ==
    /\ c_phase = "off"
    /\ c_cmd = "off"
    /\ c_n = 0
    /\ c_last_pos = None
    /\ c_rt = "off"
    /\ c_last = "off"

\* FFmpegCommand("ffmpeg", scope), as Parser.__init__ builds it
CInit ==
    /\ c_phase = "build"
    /\ c_cmd \in {FFmpegCommand("ffmpeg", sc) : sc \in {"PRE", "REMOTE", "FINAL"}}
    /\ c_n = 0
    /\ c_last_pos = None
    /\ c_rt = "off"
    /\ c_last = "off"

\* cmd.add_param(p, skip_scope); an exception leaves the command as it was
AddParam ==
    /\ c_phase = "build"
    /\ c_n < MaxAdds
    /\ \E q \in CmdParams, skip_scope \in BOOLEAN :
        LET r == add_param(c_cmd, q, skip_scope) IN
        /\ c_cmd' = r.cmd
        /\ c_last_pos' = IF r.err = "none" /\ q.spec = None THEN q.value ELSE c_last_pos
        /\ c_last' = [cmd |-> c_cmd, p |-> q, skip_scope |-> skip_scope, err |-> r.err]
    /\ c_n' = c_n + 1
    /\ UNCHANGED <<c_phase, c_rt, rest_c>>

\* Parser(scope).parse_command(cmd.get_command()) for a command that validates
RoundTrip ==
    /\ c_phase = "build"
    /\ validate(c_cmd)
    /\ c_rt' = parse_command(NewParser(c_cmd.scope), shlex_split_get_command(c_cmd), FALSE)
    /\ c_phase' = "rt"
    /\ UNCHANGED <<c_cmd, c_n, c_last_pos, c_last, rest_c>>

(***************************************************************************)
(* fetch_jobs: the slice planner.  Frames and segments are numbered from 0 *)
(* as in the code; scene_scores[f] is the score of frame f (SceneScore     *)
(* .frame is the index ffmpeg printed, which counts from 0), segment i     *)
(* holds the frames range(i*segment_frames, (i+1)*segment_frames).         *)
(***************************************************************************)
\* Segment.first_keyframe = None
NoKeyframe == -1

\* len(self.segments): fetch_segments makes len(scene_scores)//segment_frames + 1
NSegments(inp) == (inp.n \div inp.segment_frames) + 1

score(inp, f) == inp.scores[f + 1]

first_keyframe(inp, i) == inp.keyframes[i + 1]

\* seg.frame_range[0]
range_lo(inp, i) == i * inp.segment_frames

\* get_segment_at_frame(frame).idx: the first segment whose range holds it
get_segment_at_frame(inp, f) ==
    Min({i \in 0..(NSegments(inp) - 1) :
            range_lo(inp, i) <= f /\ f < range_lo(inp, i + 1)})

\* the frames of scene_scores[cur+keyint_min : cur+keyint_max]
mutant_cur_slice(inp, cur) ==
    {f \in 0..(inp.n - 1) : cur + inp.keyint_min <= f /\ f < cur + inp.keyint_max + 2}

cur_slice(inp, cur) ==
    {f \in 0..(inp.n - 1) : cur + inp.keyint_min <= f /\ f < cur + inp.keyint_max}

\* max(cur_slice, key=score).frame: the first frame of the highest score
mutant_max_score_frame(inp, S) ==
    CHOOSE f \in S : \A g \in S :
        score(inp, g) < score(inp, f) \/ (score(inp, g) = score(inp, f) /\ g <= f)

max_score_frame(inp, S) ==
    CHOOSE f \in S : \A g \in S :
        score(inp, g) < score(inp, f) \/ (score(inp, g) = score(inp, f) /\ f <= g)

\* range_correction_frame: 1, and 0 for the slice that ends the video
mutant_range_correction_frame(S) == 0

range_correction_frame(S) == IF S # {} THEN 1 ELSE 0

\* the `while True` walk of lines 519-522 from segment i: one step back
\* (never below 0) until a segment with a keyframe; NoKeyframe when the
\* walk never ends (segment 0 reached and it has none)
mutant_first_segment_idx(inp, i) == IF i > 0 THEN i - 1 ELSE 0

RECURSIVE first_segment_idx(_, _)
first_segment_idx(inp, i) ==
    LET i2 == IF i - 1 > 0 THEN i - 1 ELSE 0
    IN  IF first_keyframe(inp, i2) # NoKeyframe THEN i2
        ELSE IF i2 = 0 THEN NoKeyframe
        ELSE first_segment_idx(inp, i2)

\* the split frame of the slice that starts at cur
split_frame(inp, cur) ==
    IF cur_slice(inp, cur) # {}
    THEN max_score_frame(inp, cur_slice(inp, cur))
    ELSE inp.n - 1

\* the Job of the slice that starts at cur (lines 497-538), given the first
\* required segment fs
NewJob(inp, cur, fs) ==
    LET S == cur_slice(inp, cur)
        rc == range_correction_frame(S)
        last == split_frame(inp, cur)
        upto == get_segment_at_frame(inp, last) + 2
        base == range_lo(inp, fs) + first_keyframe(inp, fs)
    IN  [first_frame |-> cur,
         last_frame |-> last,
         range_correction |-> rc,
         \* required_segments = segments[fs : upto]
         required_segments |->
             [m \in 1..((IF upto < NSegments(inp) THEN upto ELSE NSegments(inp)) - fs) |->
                 fs + m - 1],
         rel_startframe |-> cur - base,
         rel_endframe |-> (last - base) - rc]

\* the inputs of one run: Config.validate holds, every frame has a score,
\* every segment a first keyframe or none
ScoreVals == {0, 1}

KeyframeVals(sf) == {NoKeyframe} \cup {k \in 0..1 : k < sf}

PlanInput(n, sf, kmin, kmax, sc, kf) ==
    [n |-> n, keyint_min |-> kmin, keyint_max |-> kmax, segment_frames |-> sf,
     scores |-> sc, keyframes |-> kf]

\* 100 frames with a single maximum of the score at frame 42 (the other
\* scores flat, rising or falling), keyint_min 10, keyint_max 50,
\* segment_frames 25
S6Scores ==
    { [f \in 1..100 |-> IF f = 43 THEN 1000 ELSE 0],
      [f \in 1..100 |-> IF f = 43 THEN 1000 ELSE f],
      [f \in 1..100 |-> IF f = 43 THEN 1000 ELSE 100 - f] }

S6Inputs ==
    { [n |-> 100, keyint_min |-> 10, keyint_max |-> 50, segment_frames |-> 25,
       scores |-> sc, keyframes |-> kf] :
         sc \in S6Scores, kf \in [1..5 -> {NoKeyframe, 0}] }

\* fetch_jobs is not running
PlIdle ==
    /\ pl_phase = "off"
    /\ pl_in = "off"
    /\ pl_cur = 0
    /\ pl_jobs = <<>>

\* self.jobs = []; cur_frame_idx = 0
PlInit ==
    /\ pl_phase = "plan"
    /\ \/ pl_in \in S6Inputs
       \/ \E n \in 1..MaxFrames, sf \in 1..MaxSegFrames, kmin \in 1..MaxKeyint :
            \E kmax \in kmin..MaxKeyint, sc \in [1..n -> ScoreVals],
               kf \in [1..((n \div sf) + 1) -> KeyframeVals(sf)] :
                pl_in = PlanInput(n, sf, kmin, kmax, sc, kf)
    /\ pl_cur = 0
    /\ pl_jobs = <<>>

\* one pass of the `while True` loop of fetch_jobs that gets to its end
PlanSlice ==
    /\ pl_phase = "plan"
    /\ LET fs == first_segment_idx(pl_in, get_segment_at_frame(pl_in, pl_cur)) IN
        /\ fs # NoKeyframe
        /\ pl_jobs' = Append(pl_jobs, NewJob(pl_in, pl_cur, fs))
    /\ IF cur_slice(pl_in, pl_cur) = {}
       THEN pl_phase' = "done" /\ pl_cur' = pl_cur
       ELSE pl_phase' = "plan" /\ pl_cur' = split_frame(pl_in, pl_cur)
    /\ UNCHANGED <<pl_in, rest_pl>>

\* a pass whose walk back to a keyframe never ends: no earlier segment has
\* one and first_segment_idx stays 0
PlanHang ==
    /\ pl_phase = "plan"
    /\ first_segment_idx(pl_in, get_segment_at_frame(pl_in, pl_cur)) = NoKeyframe
    /\ pl_phase' = "hang"
    /\ UNCHANGED <<pl_in, pl_cur, pl_jobs, rest_pl>>

InitPlanner == DIdle /\ PIdle /\ CIdle /\ PlInit

NextPlanner ==
    \/ PlanSlice
    \/ PlanHang

SpecPlanner == InitPlanner /\ [][NextPlanner]_vars

\* fetch_jobs runs on the main thread with nothing to wait for: a pass of
\* the loop that can be made is made
SpecPlannerFair == SpecPlanner /\ WF_vars(NextPlanner)

InitCommand == DIdle /\ PIdle /\ CInit /\ PlIdle

NextCommand ==
    \/ AddParam
    \/ RoundTrip

SpecCommand == InitCommand /\ [][NextCommand]_vars

InitParser == DIdle /\ PInit /\ CIdle /\ PlIdle

NextParser ==
    \/ ParseTemplate
    \/ ParseUser
    \/ ParseTwoPass

SpecParser == InitParser /\ [][NextParser]_vars

\* the dispatcher with no parser call in progress
Init == DInit /\ PIdle /\ CIdle /\ PlIdle

Next == DNext

Spec == Init /\ [][Next]_vars

\* the steps of run() on the main thread
MainThread ==
    \/ ConnectWorker
    \/ CheckWorkers
    \/ LoopTop
    \/ ScanSkip
    \/ ScanNoJob
    \/ ScanRetriesExhausted
    \/ ScanStart
    \/ ScanEnd
    \/ Sleep
    \/ Merge

\* the end of an add_job attempt, in success or failure
AddJobEnd(w, j) ==
    \/ AddJobFail(w, j)
    \/ AddJobProbeFail(w, j)
    \/ AddJobSucceed(w, j)

\* the main thread keeps running, every thread started gets to run and
\* every attempt comes to an end
Fairness ==
    /\ WF_vars(MainThread)
    /\ \A w \in Workers, j \in Jobs :
          WF_vars(AddJobBegin(w, j)) /\ WF_vars(AddJobEnd(w, j))

SpecFair == Spec /\ Fairness

\* an attempt fails on a worker that is not reliable; in SpecReliable the
\* workers of platform Linux are the reliable ones: they succeed at every
\* job they attempt, the others fail or succeed as before
AddJobFailUnreliable(w, j) ==
    /\ worker[w].platform # "Linux"
    /\ AddJobFail(w, j)

NextReliable ==
    \/ MainThread
    \/ \E w \in Workers, j \in Jobs : AddJobBegin(w, j)
    \/ \E w \in Workers, j \in Jobs : AddJobFailUnreliable(w, j)
    \/ \E w \in Workers, j \in Jobs : AddJobProbeFail(w, j)
    \/ \E w \in Workers, j \in Jobs : AddJobSucceed(w, j)

SpecReliable ==
    /\ Init
    /\ [][NextReliable]_vars
    /\ WF_vars(MainThread)
    /\ \A w \in Workers, j \in Jobs :
          /\ WF_vars(AddJobBegin(w, j))
          /\ WF_vars(AddJobFailUnreliable(w, j) \/ AddJobProbeFail(w, j) \/ AddJobSucceed(w, j))

(***************************************************************************)
(* Claims about the dispatcher (checked under Spec)                        *)
(***************************************************************************)
\* add_job tasks (started, not yet finished) of worker w on job j
Tasks(w, j) == created[<<w, j>>] + running[<<w, j>>]

TasksOnJob(j) == SumOver([w \in Workers |-> Tasks(w, j)], Workers)

TasksOnWorker(w) == SumOver([j \in Jobs |-> Tasks(w, j)], Jobs)

\* C1: no job is ever handed to two workers at once: at any time at most one
\* add_job task (started by the dispatcher, not yet finished) holds a given job.
C1_NoDoubleAssignment == \A j \in Jobs : TasksOnJob(j) <= 1

\* C2: when the dispatcher loop has ended with every job completed, the
\* jobs_completed counters of the workers add up to the number of jobs, and
\* no thread was ever started on a job that was already completed.
C2_CompletedExactlyOnce ==
    /\ dpc \in {"merge", "merged"} =>
          SumOver([w \in Workers |-> worker[w].jobs_completed], Workers) = NJobs
    /\ ~started_completed

\* C3: retries are bounded: no job is started more than job_max_retries + 1
\* times, and the dispatcher never goes on scanning past a job whose retries
\* reached job_max_retries.
C3_RetriesBounded == \A j \in Jobs : starts[j] <= job_max_retries + 1

\* C4: the merge starts only when every job is completed, and slices.txt
\* names the job outputs in creation order whatever the completion order was.
C4_MergeAfterAllCompleted ==
    /\ dpc \in {"merge", "merged"} => \A j \in Jobs : job[j].completed
    /\ dpc = "merged" =>
          /\ Len(slices_txt) = NJobs
          /\ \A k \in 1..NJobs : slices_txt[k] = output_fpath(k)

\* C4 witness: the merge has run although a job created later completed first.
C4_Witness == dpc = "merged" /\ first_done \notin {NoJob, 1}

\* the scenario S5: two connected workers that can run commands, one failed
\* attempt so far, which was the first attempt on its worker, and
\* job_max_retries > 1
ScenarioS5 ==
    /\ dpc # "connect"
    /\ workers_cnt = 2
    /\ \A w \in Workers : worker[w].connected => worker[w].exec_command # None
    /\ job_max_retries > 1
    /\ nfail = 1
    /\ fail_first

\* C5: in scenario S5 the failed job is assigned again with its retries going
\* from 0 to 1 (so no job ever shows retries above 1) and the run does not
\* end in RetriesExhausted.
C5_RetryOnceThenComplete ==
    ScenarioS5 =>
        /\ dpc # "retries_exhausted"
        /\ \A j \in Jobs : job[j].retries <= 1

\* C6: each worker executes at most one job at a time, so the add_job tasks
\* in flight never outnumber the connected workers.
C6_OneJobPerWorker ==
    /\ \A w \in Workers : TasksOnWorker(w) <= 1
    /\ dpc # "connect" => SumOver([w \in Workers |-> TasksOnWorker(w)], Workers) <= workers_cnt

\* C18: once the PowerShell probe has failed on a Windows worker, that
\* worker is disabled: no add_job thread is started on it for the rest of
\* the run, so the job it held goes to a different worker.
C18_ProbeFailDisablesWorker ==
    [][ps_failed # NoWorker =>
          \A j \in Jobs : created'[<<ps_failed, j>>] <= created[<<ps_failed, j>>]]_vars

\* add_job threads that ran line 151 on job j: those started, less those
\* still waiting to run
Attempts(j) == starts[j] - SumOver([w \in Workers |-> created[<<w, j>>]], Workers)

\* C19 as stated: job.retries goes up only when an attempt fails, so while
\* no attempt has failed every job still has the initial -1.
C19_RetriesCountFailures == nfail = 0 => \A j \in Jobs : job[j].retries = -1

\* C19 amended: add_job raises job.retries by exactly 1 at the start of
\* every attempt, whatever its outcome, and nothing else changes it: retries
\* is the number of attempts begun, less one.
C19_RetriesCountAttempts == \A j \in Jobs : job[j].retries = Attempts(j) - 1

\* C19 witness: a job completed by its first attempt, no attempt failed
\* anywhere, and its retries are 0.
C19_Witness ==
    \E j \in Jobs : job[j].completed /\ starts[j] = 1 /\ nfail = 0 /\ job[j].retries = 0

\* connect() has been called on worker w
ConnectCalled(w) == dpc # "connect" \/ w < wi

\* the workers of a platform other than Linux and Windows
BadPlatform == {w \in Workers : worker[w].platform \notin {"Linux", "Windows"}}

\* C23: a worker whose platform is neither Linux nor Windows is refused by
\* connect(): afterwards it is not connected, it is not counted among the
\* online workers, and no add_job thread is ever started on it.
C23_BadPlatformRefused ==
    /\ \A w \in BadPlatform :
          ConnectCalled(w) =>
              /\ ~worker[w].connected
              /\ \A j \in Jobs : created[<<w, j>>] = 0 /\ running[<<w, j>>] = 0
    /\ workers_cnt <= Cardinality({w \in Workers \ BadPlatform : worker[w].connected})

\* the scan would start a thread but the model's bound on the threads
\* started is reached: the behaviour is cut off here
CapBlocks ==
    /\ dpc = "scan"
    /\ wi <= NWorkers
    /\ worker[wi].free /\ worker[wi].connected
    /\ get_waiting_job # NoJob
    /\ job[get_waiting_job].retries < job_max_retries
    /\ SumOver(starts, Jobs) >= MaxStarts

\* some worker of the config is reliable and ssh reaches it
HasReliableWorker ==
    \E w \in Workers : worker[w].reachable /\ worker[w].platform = "Linux"

\* C26: if at least one connected worker succeeds at every job it attempts,
\* every job is eventually completed and the merge runs, even when another
\* connected worker fails its attempts.
C26_ReliableWorkerCompletes ==
    HasReliableWorker => <>(dpc = "merged" \/ CapBlocks)

\* C27: with every attempt terminating and fair scheduling, the run always
\* ends: it reaches the end of the merge with all jobs completed, or stops
\* with 'No workers found online.' or 'Exceeded number of retries'; it never
\* polls forever.
C27_DispatcherTerminates ==
    <>(\/ dpc = "merged" /\ AllJobsCompleted
       \/ dpc = "no_workers"
       \/ dpc = "retries_exhausted"
       \/ CapBlocks)

\* a run that ended with the retries of a job exhausted after an attempt
\* on it had failed twice or more
C27_Witness == dpc = "retries_exhausted" /\ nfail = 2

(***************************************************************************)
(* Claims about the parser (checked under SpecParser)                      *)
(***************************************************************************)
\* the user line p_items is cut into segments by its "ffmpeg" words; segment
\* k is parsed into cmds[k], which starts as a copy of the template
SepIdx(items) == {n \in 1..Len(items) : items[n] = Sep}

NSegs(items) == Cardinality(SepIdx(items)) + 1

SegOf(items, n) == 1 + Cardinality({m \in SepIdx(items) : m < n})

\* the values given to flag s in segment k of the line, in input order
ItemVals(items, k, s) ==
    LET idx == [n \in 1..Len(items) |-> n]
        sel == SelectSeq(idx, LAMBDA n : /\ SegOf(items, n) = k
                                         /\ Len(items[n]) = 2
                                         /\ items[n][1] = Flag(s))
    IN  [m \in 1..Len(sel) |-> items[sel[m]][2].s]

\* flag s occurs in the line
HasFlag(items, s) == \E n \in 1..Len(items) : items[n][1] = Flag(s)

\* the values of the Params of command c whose spec is s, in order
SpecValues(c, s) ==
    LET sel == SelectSeq(ParamList(c), LAMBDA p : p.spec = s)
    IN  [m \in 1..Len(sel) |-> sel[m].value]

\* the Params of command c whose spec is classified DISCARD, in order
DiscardParams(c) == SelectSeq(ParamList(c), LAMBDA p : p.spec \in ARG_SCOPES["DISCARD"])

RECURSIVE JoinComma(_)
JoinComma(vs) ==
    IF Len(vs) = 1 THEN vs[1] ELSE vs[1] \o "," \o JoinComma(Tail(vs))

\* a non-template parse in this scope hands flag s to add_param
Accepts(scope, s) ==
    \/ s \in ARG_SCOPES[scope]
    \/ scope = "REMOTE" /\ \A sc \in DOMAIN ARG_SCOPES : s \notin ARG_SCOPES[sc]

UserParsed == p_phase = "parsed"

\* C7: a user command that contains the FORBID-policy flag -g makes the
\* parse fail with ForbiddenArg, in every scope; the flag is never dropped
\* silently.
C7_ForbiddenArgRaised ==
    (UserParsed /\ HasFlag(p_items, "g")) => p_ps.err = "ForbiddenArg"

\* C8: in a scope that accepts a CONCAT-policy flag (vf, filter:v), a user
\* line whose segment gives the flag n >= 1 times to a command that did not
\* hold it yields exactly one Param of that spec, its value the n values
\* joined by commas in input order, emitted as one quoted -flag "a,b".
C8_ConcatJoined ==
    UserParsed =>
        \A s \in ARG_POLICIES["CONCAT"], k \in 1..NSegs(p_items) :
            LET vs == ItemVals(p_items, k, s) IN
            (Accepts(p_ps.scope, s) /\ vs # <<>> /\ SpecValues(p_ps.tmpl, s) = <<>>) =>
                /\ p_ps.err = "none"
                /\ Len(p_ps.cmds) = NSegs(p_items)
                /\ SpecValues(p_ps.cmds[k], s) = <<JoinComma(vs)>>
                /\ Len(SelectSeq(get_command_pieces(p_ps.cmds[k], FALSE),
                                 LAMBDA x : x = "-" \o s \o " \"" \o JoinComma(vs) \o "\" ")) = 1

\* C8 witness: -vf scale=1920:1080 -vf vidstabdetect parsed in REMOTE scope
\* into a command that held no vf, giving the single joined Param.
C8_Witness ==
    /\ UserParsed
    /\ p_ps.scope = "REMOTE"
    /\ SpecValues(p_ps.tmpl, "vf") = <<>>
    /\ ItemVals(p_items, 1, "vf") = <<"scale=1920:1080", "vidstabdetect">>
    /\ SpecValues(p_ps.cmds[1], "vf") = <<"scale=1920:1080,vidstabdetect">>

\* the case of C9: flag s of MULTIPLE policy, accepted by the scope, given
\* m >= 1 times in segment k, the command it is parsed into holding no
\* PLACEHOLDER of that spec
MultipleCase(s, k) ==
    /\ Accepts(p_ps.scope, s)
    /\ ItemVals(p_items, k, s) # <<>>
    /\ \A v \in {SpecValues(p_ps.tmpl, s)[n] : n \in 1..Len(SpecValues(p_ps.tmpl, s))} :
          v # "PLACEHOLDER"

\* C9 as stated: m occurrences of a MULTIPLE-policy flag (i, f, map) leave
\* exactly m Params of that spec in the resulting Command.
C9_ExactlyM ==
    UserParsed =>
        \A s \in {"i", "f", "map"}, k \in 1..NSegs(p_items) :
            MultipleCase(s, k) =>
                Len(SpecValues(p_ps.cmds[k], s)) = Len(ItemVals(p_items, k, s))

\* C9 amended: the parse appends exactly m Params of that spec, in input
\* order and each with its own value, after the Params of that spec the
\* command already held from the template (so exactly m only when the
\* template held none).
C9_AppendsM ==
    UserParsed =>
        \A s \in {"i", "f", "map"}, k \in 1..NSegs(p_items) :
            MultipleCase(s, k) =>
                /\ p_ps.err = "none"
                /\ Len(p_ps.cmds) = NSegs(p_items)
                /\ SpecValues(p_ps.cmds[k], s)
                      = SpecValues(p_ps.tmpl, s) \o ItemVals(p_items, k, s)

\* C9 witness: -f null -f mp4 after the fetch_jobs template, which holds
\* -f concat: three f Params, the template's first.
C9_Witness ==
    /\ UserParsed
    /\ p_base = "fetch_jobs"
    /\ ItemVals(p_items, 1, "f") = <<"null", "mp4">>
    /\ SpecValues(p_ps.cmds[1], "f") = <<"concat", "null", "mp4">>

\* C10 as stated: no Command of the parser holds a Param whose spec is
\* classified DISCARD, after any sequence of template and user parses.
C10_NoDiscardParam ==
    \A k \in 1..Len(p_ps.cmds) : DiscardParams(p_ps.cmds[k]) = <<>>

\* C10 amended: a user parse never adds or changes a DISCARD-classified
\* Param: those a Command holds are exactly the ones its template was given
\* (-y in every base command, -g 10000 in the one of fetch_jobs).
C10_DiscardOnlyFromTemplate ==
    \A k \in 1..Len(p_ps.cmds) : DiscardParams(p_ps.cmds[k]) = DiscardParams(p_ps.tmpl)

\* C10 witness: a user line with -g 250 and -y parsed after the fetch_jobs
\* template; the command still holds the template's -y and -g 10000 only.
C10_Witness ==
    /\ UserParsed
    /\ p_base = "fetch_jobs"
    /\ HasFlag(p_items, "g")
    /\ HasFlag(p_items, "y")
    /\ DiscardParams(p_ps.cmds[1]) = <<Param("y", None), Param("g", "10000")>>

\* a well-formed user line: flags (with their values), then one output path
IsFlagItem(it) == it[1].flag

WellFormedLine(items) ==
    /\ Len(items) >= 2
    /\ \A n \in 1..(Len(items) - 1) : IsFlagItem(items[n])
    /\ ~IsFlagItem(items[Len(items)])
    /\ items[Len(items)] # Sep

\* the output Param is the last element of the command
OutputLast(c) == c.output # NoRef /\ c.params[Len(c.params)] = c.output

\* C11: in every scope, each Command produced by parsing a well-formed
\* input (binary, flags of which the scope accepts at least one, output
\* path) satisfies validate() and has its output Param as last element.
C11_ValidAfterParse ==
    (/\ UserParsed
     /\ WellFormedLine(p_items)
     /\ \E n \in 1..Len(p_items) :
           IsFlagItem(p_items[n]) /\ Accepts(p_ps.scope, p_items[n][1].s)) =>
        \A k \in 1..Len(p_ps.cmds) : validate(p_ps.cmds[k]) /\ OutputLast(p_ps.cmds[k])

\* the Params segment k of the line gives to a REMOTE command: those of the
\* flags the scope accepts, in input order
RemoteParams(items, k) ==
    LET idx == [n \in 1..Len(items) |-> n]
        sel == SelectSeq(idx, LAMBDA n : /\ SegOf(items, n) = k
                                         /\ Len(items[n]) = 2
                                         /\ IsFlagItem(items[n])
                                         /\ Accepts("REMOTE", items[n][1].s))
    IN  [m \in 1..Len(sel) |-> Param(items[sel[m]][1].s, items[sel[m]][2].s)]

TwoPassParsed == UserParsed /\ p_base = "two_pass" /\ p_items \in TwoPassLines

\* C12 as stated: the two-pass line yields exactly two Commands, in both the
\* placeholder is replaced by the user's -i value, both keep the codec flags
\* and the output last, the first holds -pass 1 -f null -, the second -pass 2.
C12_PlaceholderReplaced ==
    (TwoPassParsed /\ p_items = first_pass \o <<Sep>> \o second_pass) =>
        /\ Len(p_ps.cmds) = 2
        /\ \A k \in 1..2 :
              /\ SpecValues(p_ps.cmds[k], "i") = <<"in.mp4">>
              /\ SpecValues(p_ps.cmds[k], "c:v") = <<"libaom-av1">>
              /\ SpecValues(p_ps.cmds[k], "crf") = <<"40">>
              /\ OutputLast(p_ps.cmds[k])
        /\ SpecValues(p_ps.cmds[1], "pass") = <<"1">>
        /\ SpecValues(p_ps.cmds[1], "f") = <<"null">>
        /\ SpecValues(p_ps.cmds[2], "pass") = <<"2">>
        /\ SpecValues(p_ps.cmds[2], "f") = <<>>

\* C12 amended: exactly two Commands, each the template's params (the
\* placeholder still in place: REMOTE scope does not accept the user's -i),
\* then the REMOTE flags of its own pass in input order (the positional "-"
\* is dropped), then the template's output as last element.
C12_TwoPassCommands ==
    TwoPassParsed =>
        /\ p_ps.err = "none"
        /\ Len(p_ps.cmds) = 2
        /\ \A k \in 1..2 :
              /\ ParamList(p_ps.cmds[k]) =
                    <<Param(None, "ffmpeg"), Param("i", "PLACEHOLDER"),
                      Param("c:v", "libaom-av1"), Param("crf", "40")>>
                    \o RemoteParams(p_items, k)
                    \o <<Param(None, "out.mkv")>>
              /\ OutputLast(p_ps.cmds[k])

\* C12 witness: the whole two-pass line was parsed; the first Command holds
\* -pass 1 -f null, the second -pass 2 only.
C12_Witness ==
    /\ TwoPassParsed
    /\ p_items = first_pass \o <<Sep>> \o second_pass
    /\ SpecValues(p_ps.cmds[1], "pass") = <<"1">>
    /\ SpecValues(p_ps.cmds[1], "f") = <<"null">>
    /\ SpecValues(p_ps.cmds[2], "pass") = <<"2">>
    /\ SpecValues(p_ps.cmds[2], "i") = <<"PLACEHOLDER">>

(***************************************************************************)
(* Claims about one FFmpegCommand (checked under SpecCommand)              *)
(***************************************************************************)
\* the round trip gave one Command with the same ordered (spec, value) list
SameAfterRoundTrip ==
    /\ c_rt.err = "none"
    /\ Len(c_rt.cmds) = 1
    /\ ParamList(c_rt.cmds[1]) = ParamList(c_cmd)

\* every flag of c is in the table of c's scope
NoUnclassifiedFlag(c) ==
    \A k \in 1..Len(c.params) : PV(c, k).spec = None \/ PV(c, k).spec \in ARG_SCOPES[c.scope]

\* the binary is the first param and the output is not the word "ffmpeg"
BinaryFirst(c) ==
    /\ PV(c, 1) = Param(None, "ffmpeg")
    /\ PV(c, Len(c.params)).value # "ffmpeg"

\* C17 as stated: for every valid Command c, parsing get_command(c) with a
\* fresh Parser of c's scope gives a Command with the same ordered list of
\* (spec, value) Params.
C17_RoundTrip == c_phase = "rt" => SameAfterRoundTrip

\* C17 amended: the round trip gives back the same Params for every valid
\* Command that holds no unclassified flag, starts with the binary and has
\* an output other than the word "ffmpeg".
C17_RoundTripClassified ==
    (c_phase = "rt" /\ NoUnclassifiedFlag(c_cmd) /\ BinaryFirst(c_cmd)) => SameAfterRoundTrip

\* C17 witness: a valid FINAL command with an input, an audio codec and an
\* output went through the round trip.
C17_Witness ==
    /\ c_phase = "rt"
    /\ NoUnclassifiedFlag(c_cmd)
    /\ BinaryFirst(c_cmd)
    /\ Len(c_cmd.params) = 4
    /\ SpecValues(c_cmd, "i") = <<"in.mp4">>
    /\ SpecValues(c_cmd, "c:a") = <<"aac">>
    /\ ParamList(c_rt.cmds[1]) = ParamList(c_cmd)

\* the indexes of the positional params of c
Positionals(c) == {k \in 1..Len(c.params) : PV(c, k).spec = None}

\* C20: after any sequence of add_param calls the positional params are
\* exactly the binary at the first position and, if a positional was added,
\* the most recently added positional as the last element.
C20_OutputSlot ==
    c_phase = "build" =>
        /\ PV(c_cmd, 1) = Param(None, "ffmpeg")
        /\ IF c_last_pos = None
           THEN Positionals(c_cmd) = {1}
           ELSE /\ Positionals(c_cmd) = {1, Len(c_cmd.params)}
                /\ Len(c_cmd.params) >= 2
                /\ PV(c_cmd, Len(c_cmd.params)).value = c_last_pos

\* the same with no positional named like the binary: what add_param keeps
C20_OutputSlotOtherNames ==
    (c_phase = "build" /\ c_last_pos # "ffmpeg") =>
        (\/ \E k \in 1..Len(c_cmd.objs) : k > 1 /\ c_cmd.objs[k] = Param(None, "ffmpeg")
         \/ C20_OutputSlot)


\* an add_param call has been made; c_last describes it
Added == c_phase # "off" /\ c_n > 0

\* the indexes of the Params of c with the spec of p and the value PLACEHOLDER
PlaceholdersFor(c, p) ==
    {k \in 1..Len(c.params) : PV(c, k).spec = p.spec /\ PV(c, k).value = "PLACEHOLDER"}

\* the command after the call is the command before it with the value of
\* the earliest such placeholder set to p.value, and nothing else changed:
\* same Params in the same order, same output, no exception
OnlyPlaceholderOverwritten ==
    LET k0 == Min(PlaceholdersFor(c_last.cmd, c_last.p)) IN
    /\ c_last.err = "none"
    /\ ParamList(c_cmd) =
          [k \in 1..Len(c_last.cmd.params) |->
              IF k = k0 THEN Param(c_last.p.spec, c_last.p.value)
              ELSE PV(c_last.cmd, k)]
    /\ c_cmd.output = c_last.cmd.output

\* C21 as stated: whenever the command holds a Param of p's spec whose value
\* is PLACEHOLDER, add_param(p) overwrites the value of the earliest one
\* and changes nothing else.
C21_PlaceholderOverwritten ==
    (Added /\ PlaceholdersFor(c_last.cmd, c_last.p) # {}) => OnlyPlaceholderOverwritten

\* C21 amended: the same, for a call that passes the scope check of
\* add_param (p is in the command's scope or unclassified, or skip_scope
\* is set); a call that does not raises "Invalid scope." and leaves the
\* placeholder as it was.
C21_PlaceholderOverwrittenInScope ==
    (Added /\ PlaceholdersFor(c_last.cmd, c_last.p) # {}) =>
        IF c_last.skip_scope \/ validate_param_scope(c_last.cmd, c_last.p)
        THEN OnlyPlaceholderOverwritten
        ELSE c_last.err = "InvalidScope" /\ c_cmd = c_last.cmd

\* a placeholder of a MULTIPLE spec was overwritten in a command that holds
\* an output after it
C21_Witness ==
    /\ Added
    /\ c_last.err = "none"
    /\ c_last.p = Param("i", "in.mp4")
    /\ PlaceholdersFor(c_last.cmd, c_last.p) # {}
    /\ Len(c_last.cmd.params) >= 3
    /\ c_last.cmd.output # NoRef

(***************************************************************************)
(* The slice planner: claims checked under SpecPlanner.                    *)
(***************************************************************************)
\* the jobs fetch_jobs has appended so far
JobIdx == 1..Len(pl_jobs)

\* the split frame the slice of job k started from (frame 0 for the first)
PrevSplit(k) == IF k = 1 THEN 0 ELSE pl_jobs[k - 1].last_frame

\* job k is the slice the loop broke out of
Terminal(k) == pl_phase = "done" /\ k = Len(pl_jobs)

\* C13: in order, every slice after the first begins at the split frame of
\* the slice before it, and every non-terminal slice has its split frame at
\* a distance within [keyint_min, keyint_max] of the previous split frame
\* (frame 0 for the first slice); only the terminal slice may fall outside.
C13_SplitDistance ==
    \A k \in JobIdx :
        /\ k > 1 => pl_jobs[k].first_frame = pl_jobs[k - 1].last_frame
        /\ ~Terminal(k) =>
              /\ pl_jobs[k].last_frame - PrevSplit(k) >= pl_in.keyint_min
              /\ pl_jobs[k].last_frame - PrevSplit(k) <= pl_in.keyint_max

\* a finished plan of three or more slices whose tail is shorter than
\* keyint_min
C13_Witness ==
    /\ pl_phase = "done"
    /\ Len(pl_jobs) >= 3
    /\ pl_jobs[Len(pl_jobs)].last_frame - PrevSplit(Len(pl_jobs)) < pl_in.keyint_min

\* frame 0 of the stream the worker decodes from required_segments
Base(k) ==
    range_lo(pl_in, pl_jobs[k].required_segments[1])
        + first_keyframe(pl_in, pl_jobs[k].required_segments[1])

\* the absolute frames job k selects: between(n, rel_start, rel_end)
Selected(k) ==
    {r + Base(k) : r \in pl_jobs[k].rel_startframe..pl_jobs[k].rel_endframe}

\* C14: once the plan is complete, every frame 0..n-1 of the scene scores
\* is selected by exactly one job, no job selects a frame outside 0..n-1,
\* a split frame belongs to the slice that follows it and the last frame of
\* the video to the terminal slice.
C14_Tiling ==
    pl_phase = "done" =>
        /\ \A f \in 0..(pl_in.n - 1) :
              Cardinality({k \in JobIdx : f \in Selected(k)}) = 1
        /\ \A k \in JobIdx : Selected(k) \subseteq 0..(pl_in.n - 1)
        /\ \A k \in JobIdx : k < Len(pl_jobs) =>
              /\ pl_jobs[k].last_frame \notin Selected(k)
              /\ pl_jobs[k].last_frame \in Selected(k + 1)
        /\ (pl_in.n - 1) \in Selected(Len(pl_jobs))

\* a finished plan of two or more slices, one of them decoded from a stream
\* that does not start at frame 0
C14_Witness ==
    /\ pl_phase = "done"
    /\ Len(pl_jobs) >= 2
    /\ \E k \in JobIdx : Base(k) > 0 /\ pl_jobs[k].rel_startframe > 0

\* C15: every Job the planner has produced has a non-empty
\* required_segments whose first segment has a first keyframe.
C15_FirstSegmentKeyframe ==
    \A k \in JobIdx :
        /\ Len(pl_jobs[k].required_segments) > 0
        /\ first_keyframe(pl_in, pl_jobs[k].required_segments[1]) # NoKeyframe

\* a job whose walk back passed a segment without a keyframe: its first
\* required segment lies two or more before the segment of its first frame
C15_Witness ==
    \E k \in JobIdx :
        /\ pl_jobs[k].required_segments[1] + 2
              <= get_segment_at_frame(pl_in, pl_jobs[k].first_frame)
        /\ first_keyframe(pl_in, pl_jobs[k].required_segments[1] + 1) = NoKeyframe

\* the planner has finished the run of 100 frames with the maximum at 42
S6Done == pl_phase = "done" /\ pl_in \in S6Inputs

\* the scores other than the maximum are all equal
S6Flat == \A f \in 0..99 : f # 42 => score(pl_in, f) = 0

\* C16 as stated: for the 100 frames with the single maximum at frame 42,
\* keyint_min 10, keyint_max 50 and segment_frames 25, the planner emits
\* exactly two jobs, frames 0..41 with range_correction 1 and the terminal
\* frames 42..99 with range_correction 0, each with a keyframe in its first
\* required segment.
C16_ExactlyTwoJobs ==
    S6Done =>
        /\ Len(pl_jobs) = 2
        /\ pl_jobs[1].last_frame = 42 /\ pl_jobs[1].range_correction = 1
        /\ Selected(1) = 0..41
        /\ pl_jobs[2].range_correction = 0
        /\ Selected(2) = 42..99
        /\ \A k \in JobIdx :
              first_keyframe(pl_in, pl_jobs[k].required_segments[1]) # NoKeyframe

\* C16 amended: for that input the planner emits three or more jobs.  The
\* first ends at split frame 42 with range_correction 1 and selects frames
\* 0..41; the second starts at frame 42 and is not terminal, its split frame
\* lying in 52..91 (frame 52 when the other scores are equal, which gives
\* seven jobs); only the last job has range_correction 0 and it selects up
\* to frame 99; each job's first required segment has a keyframe.
C16_ThreeOrMoreJobs ==
    S6Done =>
        /\ Len(pl_jobs) >= 3
        /\ pl_jobs[1].last_frame = 42 /\ pl_jobs[1].range_correction = 1
        /\ Selected(1) = 0..41
        /\ pl_jobs[2].first_frame = 42 /\ pl_jobs[2].range_correction = 1
        /\ pl_jobs[2].last_frame \in 52..91
        /\ S6Flat => pl_jobs[2].last_frame = 52 /\ Len(pl_jobs) = 7
        /\ \A k \in JobIdx : pl_jobs[k].range_correction = 0 <=> k = Len(pl_jobs)
        /\ 99 \in Selected(Len(pl_jobs))
        /\ \A k \in JobIdx :
              first_keyframe(pl_in, pl_jobs[k].required_segments[1]) # NoKeyframe

\* the finished plan of the flat profile: seven jobs
C16_Witness == S6Done /\ S6Flat /\ Len(pl_jobs) = 7


\* the last segment at or before segment i that has a keyframe
NearestKeyframeSegment(i) ==
    CHOOSE m \in 0..i :
        /\ first_keyframe(pl_in, m) # NoKeyframe
        /\ \A m2 \in (m + 1)..i : first_keyframe(pl_in, m2) = NoKeyframe

\* C22: for every job, required_segments starts at the segment that holds
\* the slice's first frame when that segment has a keyframe, otherwise at
\* the nearest earlier segment that has one, and ends one segment after the
\* segment that holds the slice's last frame.
C22_MinimalSegments ==
    \A k \in JobIdx :
        LET req == pl_jobs[k].required_segments IN
        /\ req[1] = NearestKeyframeSegment(get_segment_at_frame(pl_in, pl_jobs[k].first_frame))
        /\ req[Len(req)] = get_segment_at_frame(pl_in, pl_jobs[k].last_frame) + 1

\* the start alone: the same statement without its clause on the end
C22_MinimalStart ==
    \A k \in JobIdx :
        pl_jobs[k].required_segments[1]
            = NearestKeyframeSegment(get_segment_at_frame(pl_in, pl_jobs[k].first_frame))


\* the number of frames job k selects
SliceFrames(k) == pl_jobs[k].rel_endframe - pl_jobs[k].rel_startframe + 1

\* C24: for every configuration Config.validate accepts (0 < keyint_min <=
\* keyint_max) and every number of frames, no slice of the plan, the
\* terminal one included, spans more than keyint_max frames.
C24_SliceWithinKeyintMax ==
    \A k \in JobIdx : SliceFrames(k) <= pl_in.keyint_max

\* the same for keyint_min < keyint_max, where the window of a slice is
\* empty only within keyint_min frames of the end
C24_SliceWithinKeyintMaxOpenWindow ==
    pl_in.keyint_min < pl_in.keyint_max =>
        \A k \in JobIdx : SliceFrames(k) <= pl_in.keyint_max


\* C25: the planner terminates on every input: for any non-empty list of
\* scene scores and any segment table, also one whose segment 0 or leading
\* segments have no keyframe, the slice loop and the walk back to a segment
\* with a keyframe both finish, so fetch_jobs gets to its end.
C25_PlannerTerminates == <>(pl_phase = "done")

====
